---- MODULE Spec2Model ----
(***************************************************************************)
(* cellium-auth: the credential store and the Token Authority.             *)
(*                                                                         *)
(* The store holds two tables: users (app/models/models.py, User) and      *)
(* tokens (Token).  Rows are addressed by their integer primary key, which *)
(* is the row's position in the table (rows are never deleted).            *)
(* TokenService / UserService (app/services/auth_service.py) and the login *)
(* route (app/routers/auth.py) are the operations; every operation is one  *)
(* action that ends with the commit the code ends with.                    *)
(*                                                                         *)
(* The routes of app/routers/auth.py build their responses from what the   *)
(* operations return.  In the specification of concurrent requests an      *)
(* operation is served statement by statement on one of two workers.       *)
(*                                                                         *)
(* Time is a counter of clock ticks read through datetime.utcnow().        *)
(* The clock runs in the specifications of the session tokens and of the   *)
(* concurrent requests.                                                    *)
(* An Optional[T] value is None (the empty tuple) or Some(x).              *)
(***************************************************************************)
EXTENDS Integers, Sequences, FiniteSets, TLC

\* ---- bounds of the model ------------------------------------------------
MaxTokens == 2
MaxTime == 2
MaxListed == 3

\* ---- Optional values ----------------------------------------------------
None == <<>>
Some(x) == <<x>>

\* ---- the values the operations are called with -------------------------
Usernames == {"admin", "bob"}
UnknownUsername == "carol"
Passwords == {"pw1", "pw2"}
\* uuid.uuid4().hex[:12]: twelve hex digits.  uuid4_hex12(k) is the k-th of
\* the suffixes the model draws from; distinct k give distinct suffixes.
uuid4_hex12(k) == [i \in 1..12 |-> IF i = 12 THEN k ELSE 0]
Suffixes == {uuid4_hex12(k) : k \in 1..MaxTokens}
UserIds == 1..2

VARIABLES
    users,      \* the users table: id -> row
    tokens,     \* the tokens table: id -> row
    now,        \* datetime.utcnow()
    last,       \* the call that was served last, with what it returned
    held,       \* the session token a client keeps, with the account that logged in
    revoked,    \* history: ids of the tokens for which revoke_token returned True
    response,   \* the HTTP response of the route that was served last
    calls       \* the requests in flight on the workers, each with its position

vars == <<users, tokens, now, last, held, revoked, response, calls>>

Idle == [op |-> "none"]

\* No route has answered yet.
NoResponse == [route |-> "none"]

\* The workers of the pool, and a worker that serves no request.
Workers == {"w1", "w2"}
NoCall == [pc |-> "idle", op |-> "none", seq |-> 0]

\* ---- Credential Hasher --------------------------------------------------
\* hashlib.sha256(password.encode()).hexdigest(): deterministic, unsalted,
\* and one-to-one on the passwords of the model.
get_password_hash(password) == <<"sha256", password>>

verify_password(plain_password, hashed_password) ==
    get_password_hash(plain_password) = hashed_password

\* ---- queries ------------------------------------------------------------
\* Query.first(): the first matching row, or None.
First(ids) ==
    IF ids = {} THEN None ELSE Some(CHOOSE i \in ids : \A j \in ids : i <= j)

get_user_by_username(username) ==
    First({i \in DOMAIN users : users[i].username = username})

\* db.query(User).filter(User.id == user_id).first()
get_user_by_id(user_id) ==
    First({i \in DOMAIN users : i = user_id})

\* Variant: the lookup without the is_active filter.
get_token_by_string_any_flag(token_string) ==
    First({i \in DOMAIN tokens : tokens[i].token = token_string})

get_token_by_string(token_string) ==
    First({i \in DOMAIN tokens :
              tokens[i].token = token_string /\ tokens[i].is_active = TRUE})

\* Variant: the listing without the is_active filter.
get_user_tokens_any_flag(user_id) ==
    SelectSeq([i \in DOMAIN tokens |-> i],
              LAMBDA i : tokens[i].user_id = user_id)

\* The ids of the rows get_user_tokens returns, in the order of the table.
get_user_tokens(user_id) ==
    SelectSeq([i \in DOMAIN tokens |-> i],
              LAMBDA i : tokens[i].user_id = user_id /\ tokens[i].is_active = TRUE)

\* ---- API Token Generator ------------------------------------------------
\* Variant: the string is generated before the owner is bound.
generate_token_before_owner(owner_username, suffix) == <<"user", "None", suffix>>

\* f"user:{self.owner.username}:{uuid.uuid4().hex[:12]}"
generate_token(owner_username, suffix) == <<"user", owner_username, suffix>>

\* The strings a caller may present to the opaque-token validation: the
\* string of any stored token (active or not), a string of the right form
\* that no token carries, and a string that is no API token.
TokenStrings ==
    {tokens[i].token : i \in DOMAIN tokens}
        \cup {generate_token("admin", uuid4_hex12(0)),
              <<"bearer", "not-an-api-token", <<>>>>}

\* ---- Token Authority: API tokens ----------------------------------------
\* Variant: the row is added before the string is generated.
create_token_persisting_first(user_id, expires_at, suffix) ==
    LET owner == get_user_by_id(user_id)
        name == IF owner = None THEN "None" ELSE users[owner[1]].username
    IN
    /\ tokens' = Append(tokens,
                        [token |-> generate_token(name, suffix),
                         user_id |-> user_id,
                         is_active |-> TRUE,
                         expires_at |-> expires_at,
                         last_used_at |-> None])
    /\ last' = [op |-> "create_token",
                raised |-> IF owner = None THEN "AttributeError" ELSE "",
                res |-> IF owner = None THEN None ELSE Some(Len(tokens) + 1)]
    /\ UNCHANGED <<users, now, held, revoked>>

\* Variant: the token column without its unique constraint.
create_token_without_unique(user_id, expires_at, suffix) ==
    LET owner == get_user_by_id(user_id) IN
    /\ IF owner = None
       THEN /\ tokens' = tokens
            /\ last' = [op |-> "create_token", raised |-> "AttributeError",
                        res |-> None]
       ELSE /\ tokens' = Append(tokens,
                               [token |-> generate_token(users[owner[1]].username, suffix),
                                user_id |-> user_id,
                                is_active |-> TRUE,
                                expires_at |-> expires_at,
                                last_used_at |-> None])
            /\ last' = [op |-> "create_token", raised |-> "",
                        res |-> Some(Len(tokens) + 1)]
    /\ UNCHANGED <<users, now, held, revoked>>

\* TokenService.create_token.  owner is None when no user has user_id, and
\* generate_token then raises AttributeError before db.add.  The column
\* Token.token is unique: the commit of a duplicate raises IntegrityError
\* and the row is not stored.
create_token(user_id, expires_at, suffix) ==
    LET owner == get_user_by_id(user_id) IN
    /\ IF owner = None
       THEN /\ tokens' = tokens
            /\ last' = [op |-> "create_token", raised |-> "AttributeError",
                        res |-> None]
       ELSE LET token == generate_token(users[owner[1]].username, suffix) IN
            IF \E i \in DOMAIN tokens : tokens[i].token = token
            THEN /\ tokens' = tokens
                 /\ last' = [op |-> "create_token", raised |-> "IntegrityError",
                             res |-> None]
            ELSE /\ tokens' = Append(tokens,
                                [token |-> token,
                                 user_id |-> user_id,
                                 is_active |-> TRUE,
                                 expires_at |-> expires_at,
                                 last_used_at |-> None])
                 /\ last' = [op |-> "create_token", raised |-> "",
                             res |-> Some(Len(tokens) + 1)]
    /\ UNCHANGED <<users, now, held, revoked>>

\* What a revoke call is about, as the caller of the model knows it from the
\* state it calls in (recorded with the call, read by no operation).
RevokeAbout(token_id, user_id) ==
    IF token_id \notin DOMAIN tokens THEN "no such id"
    ELSE IF tokens[token_id].user_id # user_id THEN "token of another account"
    ELSE IF tokens[token_id].is_active THEN "own active token"
    ELSE "own inactive token"

\* Variant: the query without the ownership filter.
revoke_query_any_owner(token_id, user_id) ==
    First({i \in DOMAIN tokens : i = token_id})

\* Variant: the query restricted to active tokens.
revoke_query_active_only(token_id, user_id) ==
    First({i \in DOMAIN tokens :
              i = token_id /\ tokens[i].user_id = user_id /\ tokens[i].is_active})

\* db.query(Token).filter(Token.id == token_id, Token.user_id == user_id).first()
revoke_query(token_id, user_id) ==
    First({i \in DOMAIN tokens : i = token_id /\ tokens[i].user_id = user_id})

\* Variant: the flag is flipped instead of cleared.
soft_delete_toggle(row) == [row EXCEPT !.is_active = ~@]

\* db_token.is_active = False
soft_delete(row) == [row EXCEPT !.is_active = FALSE]

\* TokenService.revoke_token
revoke_token(token_id, user_id) ==
    LET db_token == revoke_query(token_id, user_id) IN
    /\ IF db_token # None
       THEN /\ tokens' = [tokens EXCEPT ![db_token[1]] = soft_delete(@)]
            /\ revoked' = revoked \cup {db_token[1]}
            /\ last' = [op |-> "revoke_token",
                        about |-> RevokeAbout(token_id, user_id), res |-> TRUE]
       ELSE /\ UNCHANGED <<tokens, revoked>>
            /\ last' = [op |-> "revoke_token",
                        about |-> RevokeAbout(token_id, user_id), res |-> FALSE]
    /\ UNCHANGED <<users, now, held>>

\* What a validation call is about, as the caller of the model knows it
\* from the state it calls in (recorded with the call, read by no operation).
ValidateAbout(token_string) ==
    LET rows == {i \in DOMAIN tokens : tokens[i].token = token_string} IN
    IF rows = {} THEN "unknown string"
    ELSE IF \E i \in rows : i \in revoked THEN "revoked token"
    ELSE IF \E i \in rows : tokens[i].expires_at # None
                               /\ tokens[i].expires_at[1] < now
    THEN "expired token"
    ELSE "current token"

\* Variant: a token counts as expired at the instant expires_at itself.
is_expired_at_the_instant(expires_at) ==
    expires_at # None /\ expires_at[1] <= now

\* token.expires_at and token.expires_at < datetime.utcnow()
is_expired(expires_at) ==
    expires_at # None /\ expires_at[1] < now

\* Variant: an expired token is deactivated when it is presented.
validate_token_deactivating_expired(token_string) ==
    LET token == get_token_by_string(token_string) IN
    /\ IF token = None
       THEN /\ tokens' = tokens
            /\ last' = [op |-> "validate_token",
                        about |-> ValidateAbout(token_string), res |-> None]
       ELSE IF is_expired(tokens[token[1]].expires_at)
       THEN /\ tokens' = [tokens EXCEPT ![token[1]].is_active = FALSE]
            /\ last' = [op |-> "validate_token",
                        about |-> ValidateAbout(token_string), res |-> None]
       ELSE /\ tokens' = [tokens EXCEPT ![token[1]].last_used_at = Some(now)]
            /\ last' = [op |-> "validate_token",
                        about |-> ValidateAbout(token_string),
                        res |-> get_user_by_id(tokens[token[1]].user_id)]
    /\ UNCHANGED <<users, now, held, revoked>>

\* Variant: last_used_at is written before the expiry is looked at.
validate_token_stamping_refused(token_string) ==
    LET token == get_token_by_string(token_string) IN
    /\ IF token = None
       THEN /\ tokens' = tokens
            /\ last' = [op |-> "validate_token",
                        about |-> ValidateAbout(token_string), res |-> None]
       ELSE /\ tokens' = [tokens EXCEPT ![token[1]].last_used_at = Some(now)]
            /\ last' = [op |-> "validate_token",
                        about |-> ValidateAbout(token_string),
                        res |-> IF is_expired(tokens[token[1]].expires_at)
                                THEN None
                                ELSE get_user_by_id(tokens[token[1]].user_id)]
    /\ UNCHANGED <<users, now, held, revoked>>

\* TokenService.validate_token_and_get_user; the result is the id of
\* token.owner, or None.
validate_token_and_get_user(token_string) ==
    LET token == get_token_by_string(token_string) IN
    /\ IF token = None
       THEN /\ tokens' = tokens
            /\ last' = [op |-> "validate_token",
                        about |-> ValidateAbout(token_string), res |-> None]
       ELSE IF is_expired(tokens[token[1]].expires_at)
       THEN /\ tokens' = tokens
            /\ last' = [op |-> "validate_token",
                        about |-> ValidateAbout(token_string), res |-> None]
       ELSE /\ tokens' = [tokens EXCEPT ![token[1]].last_used_at = Some(now)]
            /\ last' = [op |-> "validate_token",
                        about |-> ValidateAbout(token_string),
                        res |-> get_user_by_id(tokens[token[1]].user_id)]
    /\ UNCHANGED <<users, now, held, revoked>>

\* GET /tokens: TokenService.get_user_tokens for the current user
list_tokens(user_id) ==
    /\ last' = [op |-> "list_tokens", res |-> get_user_tokens(user_id)]
    /\ UNCHANGED <<users, tokens, now, held, revoked>>

\* ---- Session Token Codec (app/core/security.py) -------------------------
\* Process-wide configuration, read once from the environment (the defaults).
JWT_SECRET_KEY == "your-super-secret-jwt-key-change-in-production"
JWT_ACCESS_TOKEN_EXPIRE_MINUTES == 30
\* a key that is not the configured one
OtherSecret == "some-other-secret"

\* HMAC-SHA256 of the signing input under key: equal macs come only from
\* equal keys and equal inputs.
HS256(key, payload) == <<key, payload>>

\* jose.jwt.encode.  A compact JWS is header.payload.signature; wf says that
\* the string still parses (three base64url segments holding JSON objects),
\* slack is the value of the two bits of the last signature character that
\* base64url decoding discards (the encoder writes them as 0).
jwt_encode(claims, key) ==
    [wf |-> TRUE, payload |-> claims, sig |-> HS256(key, claims), slack |-> 0]

\* Variant: the claims are decoded without the signature being compared.
jwt_decode_unverified(token, key) ==
    IF ~token.wf
    THEN [raised |-> "JWTError", payload |-> None]
    ELSE IF token.payload.exp < now
    THEN [raised |-> "JWTError", payload |-> None]
    ELSE [raised |-> "", payload |-> Some(token.payload)]

\* Variant: the expiry failure is an error that is no JWTError.
jwt_decode_expiry_other_error(token, key) ==
    IF ~token.wf
    THEN [raised |-> "JWTError", payload |-> None]
    ELSE IF token.sig # HS256(key, token.payload)
    THEN [raised |-> "JWTError", payload |-> None]
    ELSE IF token.payload.exp < now
    THEN [raised |-> "ExpiredSignatureError", payload |-> None]
    ELSE [raised |-> "", payload |-> Some(token.payload)]

\* jose.jwt.decode(token, key, algorithms=[JWT_ALGORITHM]): every failure is a
\* JWTError (JWSError is re-raised as JWTError, ExpiredSignatureError is a
\* subclass).  _validate_exp raises when exp < now, so a token is still
\* accepted at the instant exp = now.
jwt_decode(token, key) ==
    IF ~token.wf
    THEN [raised |-> "JWTError", payload |-> None]
    ELSE IF token.sig # HS256(key, token.payload)
    THEN [raised |-> "JWTError", payload |-> None]
    ELSE IF token.payload.exp < now
    THEN [raised |-> "JWTError", payload |-> None]
    ELSE [raised |-> "", payload |-> Some(token.payload)]

\* timedelta(minutes=...): the clock counts minutes
timedelta(minutes) == minutes

\* create_access_token(data, expires_delta): expires_delta is None when the
\* caller leaves it out.  `if expires_delta:` is the truth value of the
\* timedelta, and timedelta(0) is false.  data.copy() leaves data as it was:
\* the result carries the token and data after the call.
create_access_token(data, expires_delta) ==
    LET expire == IF expires_delta # None /\ expires_delta[1] # 0
                  THEN now + expires_delta[1]
                  ELSE now + timedelta(JWT_ACCESS_TOKEN_EXPIRE_MINUTES)
        to_encode == [sub |-> data.sub, exp |-> expire]
    IN  [encoded_jwt |-> jwt_encode(to_encode, JWT_SECRET_KEY), data |-> data]

\* verify_token(token): the payload, or None on JWTError; any other exception
\* would propagate.
verify_token(token) ==
    LET r == jwt_decode(token, JWT_SECRET_KEY)
    IN  IF r.raised = "JWTError"
        THEN [raised |-> "", payload |-> None]
        ELSE r

\* ---- Token Authority: login and session tokens --------------------------
\* Variant: the password is not looked at.
authenticate_user_any_password(username, password) ==
    get_user_by_username(username)

\* UserService.authenticate_user
authenticate_user(username, password) ==
    LET user == get_user_by_username(username) IN
    IF user = None \/ ~verify_password(password, users[user[1]].hashed_password)
    THEN None
    ELSE user

\* POST /login
login(username, password) ==
    LET user == authenticate_user(username, password) IN
    /\ IF user = None
       THEN last' = [op |-> "login", status |-> 401,
                     detail |-> "Incorrect username or password",
                     user |-> None, access_token |-> None]
       ELSE IF ~users[user[1]].is_active
       THEN last' = [op |-> "login", status |-> 400, detail |-> "Inactive user",
                     user |-> None, access_token |-> None]
       ELSE last' = [op |-> "login", status |-> 200, detail |-> "",
                     user |-> user,
                     access_token |->
                        Some(create_access_token(
                                [sub |-> Some(users[user[1]].username)], None).encoded_jwt)]
    /\ UNCHANGED <<users, tokens, now, held, revoked>>

\* Variant: the username is read from a claim the token does not carry.
validate_jwt_reading_other_claim(jwt_token) ==
    /\ last' = [op |-> "validate_jwt", token |-> jwt_token, res |-> None]
    /\ UNCHANGED <<users, tokens, now, held, revoked>>

\* Variant: an account that is not active is not returned.
validate_jwt_checking_active(jwt_token) ==
    LET payload == verify_token(jwt_token).payload
        username == IF payload = None THEN None ELSE payload[1].sub
        user == IF username = None THEN None ELSE get_user_by_username(username[1])
    IN
    /\ last' = [op |-> "validate_jwt", token |-> jwt_token,
                res |-> IF user # None /\ users[user[1]].is_active
                        THEN user ELSE None]
    /\ UNCHANGED <<users, tokens, now, held, revoked>>

\* TokenService.validate_jwt_and_get_user
validate_jwt_and_get_user(jwt_token) ==
    LET payload == verify_token(jwt_token).payload
        username == IF payload = None THEN None ELSE payload[1].sub
    IN
    /\ last' = [op |-> "validate_jwt", token |-> jwt_token,
                res |-> IF payload = None THEN None
                        ELSE IF username = None THEN None
                        ELSE get_user_by_username(username[1])]
    /\ UNCHANGED <<users, tokens, now, held, revoked>>

\* A direct call of the codec's issue operation.
issue(data, expires_delta) ==
    LET r == create_access_token(data, expires_delta) IN
    /\ last' = [op |-> "create_access_token", data_in |-> data,
                expires_delta |-> expires_delta,
                encoded_jwt |-> r.encoded_jwt, data |-> r.data]
    /\ UNCHANGED <<users, tokens, now, held, revoked>>

\* A direct call of the codec's verify operation.
verify(token) ==
    LET r == verify_token(token) IN
    /\ last' = [op |-> "verify_token", token |-> token,
                raised |-> r.raised, payload |-> r.payload]
    /\ UNCHANGED <<users, tokens, now, held, revoked>>

\* ---- what happens outside the service -----------------------------------
\* The client keeps the session token of the response it just received.
keep_token ==
    /\ \/ /\ last.op = "login"
          /\ last.status = 200
          /\ held' = Some([token |-> last.access_token[1], uid |-> last.user])
       \/ /\ last.op = "create_access_token"
          /\ held' = Some([token |-> last.encoded_jwt, uid |-> None])
    /\ last' = Idle
    /\ UNCHANGED <<users, tokens, now, revoked>>

\* An account is deactivated in the store (User.is_active, UserUpdate).
set_user_inactive(user_id) ==
    /\ users[user_id].is_active
    /\ users' = [users EXCEPT ![user_id].is_active = FALSE]
    /\ last' = Idle
    /\ UNCHANGED <<tokens, now, held, revoked>>

\* The tokens that differ from token in one character: in the payload
\* segment (other claims under the old signature, or a segment that no longer
\* parses), in the signature segment (other signature bytes, or only the
\* bits the decoder discards).
OneCharAltered(token) ==
    {[token EXCEPT !.payload.exp = @ + 1],
     [token EXCEPT !.payload.sub = Some(UnknownUsername)],
     [token EXCEPT !.wf = FALSE],
     [token EXCEPT !.sig = HS256("?", token.payload)],
     [token EXCEPT !.slack = 1 - @]} \ {token}

\* The same claims signed with another secret.
OtherSecretSigned(token) == jwt_encode(token.payload, OtherSecret)

\* The session tokens a caller may present: the one it holds, that one
\* altered or re-signed, and a string that is no JWT.
Presentable ==
    {[wf |-> FALSE, payload |-> [sub |-> None, exp |-> 0],
      sig |-> HS256("?", None), slack |-> 0]}
    \cup (IF held = None THEN {}
          ELSE {held[1].token, OtherSecretSigned(held[1].token)}
                  \cup OneCharAltered(held[1].token))

\* ---- the routes (app/routers/auth.py) and faults of the store -----------
\* A route calls the service operation and builds its response from what
\* the operation returned.  store_fault: the store raises while the
\* operation uses it (a lost connection, sqlalchemy's OperationalError);
\* nothing is committed then.
\* The two responses of a validation route that carry no account.
InvalidResponse(route, error) ==
    [route |-> route, status |-> 200, valid |-> FALSE, user |-> None,
     error |-> error]

\* An exception that leaves a route: the framework answers 500.
ServerError(route, exception) ==
    [route |-> route, status |-> 500, exception |-> exception]

\* Variant: POST /validate without its try/except.
validate_token_route_without_net(token_string, store_fault) ==
    IF store_fault
    THEN /\ last' = [op |-> "validate_token",
                     about |-> ValidateAbout(token_string), res |-> None,
                     raised |-> "OperationalError"]
         /\ response' = ServerError("POST /validate", "OperationalError")
         /\ UNCHANGED <<users, tokens, now, held, revoked>>
    ELSE /\ validate_token_and_get_user(token_string)
         /\ response' = IF last'.res # None
                        THEN [route |-> "POST /validate", status |-> 200,
                              valid |-> TRUE, user |-> last'.res, error |-> ""]
                        ELSE InvalidResponse("POST /validate",
                                             "Invalid or expired token")

\* POST /validate
validate_token_route(token_string, store_fault) ==
    IF store_fault
    THEN /\ last' = [op |-> "validate_token",
                     about |-> ValidateAbout(token_string), res |-> None,
                     raised |-> "OperationalError"]
         /\ response' = InvalidResponse("POST /validate", "Token validation failed")
         /\ UNCHANGED <<users, tokens, now, held, revoked>>
    ELSE /\ validate_token_and_get_user(token_string)
         /\ response' = IF last'.res # None
                        THEN [route |-> "POST /validate", status |-> 200,
                              valid |-> TRUE, user |-> last'.res, error |-> ""]
                        ELSE InvalidResponse("POST /validate",
                                             "Invalid or expired token")

\* POST /validate-jwt.  The store is used only when the token verifies and
\* carries a sub; an error of the codec that verify_token does not catch
\* leaves the operation like a fault of the store.
validate_jwt_token_route(jwt_token, store_fault) ==
    LET r == verify_token(jwt_token)
        queried == r.raised = "" /\ r.payload # None /\ r.payload[1].sub # None
        raised == IF r.raised # "" THEN r.raised
                  ELSE IF queried /\ store_fault THEN "OperationalError"
                  ELSE ""
    IN
    IF raised # ""
    THEN /\ last' = [op |-> "validate_jwt", token |-> jwt_token, res |-> None,
                     raised |-> raised]
         /\ response' = InvalidResponse("POST /validate-jwt",
                                        "Token validation failed")
         /\ UNCHANGED <<users, tokens, now, held, revoked>>
    ELSE /\ validate_jwt_and_get_user(jwt_token)
         /\ response' = IF last'.res # None
                        THEN [route |-> "POST /validate-jwt", status |-> 200,
                              valid |-> TRUE, user |-> last'.res, error |-> ""]
                        ELSE InvalidResponse("POST /validate-jwt",
                                             "Invalid or expired JWT token")

\* POST /login (login above is the route without a fault of the store): no
\* try/except, an exception of authenticate_user leaves the route.
login_route(username, password, store_fault) ==
    IF store_fault
    THEN /\ last' = [op |-> "login", status |-> 500,
                     detail |-> "Internal Server Error",
                     user |-> None, access_token |-> None,
                     raised |-> "OperationalError"]
         /\ response' = ServerError("POST /login", "OperationalError")
         /\ UNCHANGED <<users, tokens, now, held, revoked>>
    ELSE /\ login(username, password)
         /\ response' = [route |-> "POST /login", status |-> last'.status,
                         detail |-> last'.detail]

\* POST /tokens for current_user (an existing account, by get_current_user):
\* no try/except, an exception of create_token leaves the route.
create_token_route(current_user, expires_at, suffix, store_fault) ==
    IF store_fault
    THEN /\ last' = [op |-> "create_token", raised |-> "OperationalError",
                     res |-> None]
         /\ response' = ServerError("POST /tokens", "OperationalError")
         /\ UNCHANGED <<users, tokens, now, held, revoked>>
    ELSE /\ create_token(current_user, expires_at, suffix)
         /\ response' = IF last'.raised # ""
                        THEN ServerError("POST /tokens", last'.raised)
                        ELSE [route |-> "POST /tokens", status |-> 200,
                              token |-> last'.res]

\* ---- requests served concurrently ---------------------------------------
\* Each worker serves one request in its own Session; the statements of two
\* requests interleave.  A step is one statement that reads or writes the
\* store (or the clock); pc is the statement the worker executes next.
\* loaded is the Token object of the Session: the row as the query read it.
\* db.commit() flushes the attributes that were assigned, and only those
\* (UPDATE tokens SET <assigned column> WHERE id = <row>).
\* History kept with a call: seq, the rank of its commit among the commits;
\* existed and after_revoke, whether at the query a stored token carried the
\* string, and whether a revoke of such a token had already returned True.
CommitRank == 1 + Cardinality({w \in Workers : calls[w].seq > 0})

\* validate_token_and_get_user, line 82: get_token_by_string
validate_query(w, token_string) ==
    LET token == get_token_by_string(token_string)
        call == [pc |-> "check", op |-> "validate", arg |-> token_string,
                 row |-> token,
                 loaded |-> IF token = None THEN None ELSE Some(tokens[token[1]]),
                 stamp |-> None, res |-> None, seq |-> 0,
                 existed |-> \E i \in DOMAIN tokens : tokens[i].token = token_string,
                 after_revoke |-> \E i \in revoked : tokens[i].token = token_string]
    IN
    /\ calls[w].pc = "idle"
    /\ calls' = [calls EXCEPT ![w] =
                    IF token = None THEN [call EXCEPT !.pc = "done"] ELSE call]
    /\ UNCHANGED <<users, tokens, now, last, held, revoked, response>>

\* line 87: the expiry of the loaded object against utcnow()
validate_check(w) ==
    /\ calls[w].pc = "check"
    /\ calls' = [calls EXCEPT ![w].pc =
                    IF is_expired(calls[w].loaded[1].expires_at)
                    THEN "done" ELSE "stamp"]
    /\ UNCHANGED <<users, tokens, now, last, held, revoked, response>>

\* line 91: token.last_used_at = datetime.utcnow()
validate_stamp(w) ==
    /\ calls[w].pc = "stamp"
    /\ calls' = [calls EXCEPT ![w].pc = "commit", ![w].stamp = Some(now)]
    /\ UNCHANGED <<users, tokens, now, last, held, revoked, response>>

\* Variant: the commit writes last_used_at only where none is stored.
validate_commit_first_write_wins(w) ==
    /\ calls[w].pc = "commit"
    /\ tokens' = [tokens EXCEPT ![calls[w].row[1]].last_used_at =
                      IF @ = None THEN calls[w].stamp ELSE @]
    /\ calls' = [calls EXCEPT ![w].pc = "owner", ![w].seq = CommitRank]
    /\ UNCHANGED <<users, now, last, held, revoked, response>>

\* Variant: the commit writes the whole loaded object back.
validate_commit_whole_row(w) ==
    /\ calls[w].pc = "commit"
    /\ tokens' = [tokens EXCEPT ![calls[w].row[1]] =
                      [calls[w].loaded[1] EXCEPT !.last_used_at = calls[w].stamp]]
    /\ calls' = [calls EXCEPT ![w].pc = "owner", ![w].seq = CommitRank]
    /\ UNCHANGED <<users, now, last, held, revoked, response>>

\* line 92: db.commit()
validate_commit(w) ==
    /\ calls[w].pc = "commit"
    /\ tokens' = [tokens EXCEPT ![calls[w].row[1]].last_used_at = calls[w].stamp]
    /\ calls' = [calls EXCEPT ![w].pc = "owner", ![w].seq = CommitRank]
    /\ UNCHANGED <<users, now, last, held, revoked, response>>

\* line 94: return token.owner (the account of the row's user_id)
validate_return(w) ==
    /\ calls[w].pc = "owner"
    /\ calls' = [calls EXCEPT ![w].pc = "done",
                              ![w].res = get_user_by_id(tokens[calls[w].row[1]].user_id)]
    /\ UNCHANGED <<users, tokens, now, last, held, revoked, response>>

\* revoke_token, line 72: the query
revoke_read(w, token_id, user_id) ==
    LET db_token == revoke_query(token_id, user_id) IN
    /\ calls[w].pc = "idle"
    /\ calls' = [calls EXCEPT ![w] =
                    [pc |-> IF db_token = None THEN "done" ELSE "revoke_commit",
                     op |-> "revoke", arg |-> <<token_id, user_id>>,
                     row |-> db_token, res |-> FALSE, seq |-> 0]]
    /\ UNCHANGED <<users, tokens, now, last, held, revoked, response>>

\* lines 74-75: db_token.is_active = False; db.commit()
revoke_commit(w) ==
    /\ calls[w].pc = "revoke_commit"
    /\ tokens' = [tokens EXCEPT ![calls[w].row[1]] = soft_delete(@)]
    /\ calls' = [calls EXCEPT ![w].pc = "revoke_return", ![w].seq = CommitRank]
    /\ UNCHANGED <<users, now, last, held, revoked, response>>

\* line 76: return True
revoke_return(w) ==
    /\ calls[w].pc = "revoke_return"
    /\ calls' = [calls EXCEPT ![w].pc = "done", ![w].res = TRUE]
    /\ revoked' = revoked \cup {calls[w].row[1]}
    /\ UNCHANGED <<users, tokens, now, last, held, response>>

\* ---- the clock ----------------------------------------------------------
\* The clock is read at the instants 0, ClockStep, 2 * ClockStep, ...: a
\* session token of the default lifetime issued at one reading expires at
\* the next.
ClockStep == timedelta(JWT_ACCESS_TOKEN_EXPIRE_MINUTES)

Tick ==
    /\ now < MaxTime * ClockStep
    /\ now' = now + ClockStep
    /\ last' = Idle
    /\ UNCHANGED <<users, tokens, held, revoked>>
    /\ UNCHANGED <<response, calls>>

\* ---- the state after start-up -------------------------------------------
\* Two accounts with distinct usernames, as UserService.create_user stores
\* them: the password hashed, is_active at the column default True.
Init ==
    /\ users = [i \in UserIds |->
                  [username |-> IF i = 1 THEN "admin" ELSE "bob",
                   hashed_password |-> get_password_hash("pw1"),
                   is_active |-> TRUE]]
    /\ tokens = <<>>
    /\ now = 0
    /\ last = Idle
    /\ held = None
    /\ revoked = {}
    /\ response = NoResponse
    /\ calls = [w \in Workers |-> NoCall]

\* The suffixes uuid4 may produce for a new token of user_id, up to a
\* renaming of the suffixes: one that a stored token of that user already
\* carries (a collision), or the first one that none of them carries.
DrawnSuffixes(user_id) ==
    LET used == {tokens[i].token[3] : i \in {j \in DOMAIN tokens : tokens[j].user_id = user_id}}
        free == {k \in 1..(Len(tokens) + 1) : uuid4_hex12(k) \notin used}
    IN  used \cup {uuid4_hex12(k) : k \in {m \in free : \A n \in free : m <= n}}

\* The expires_at values callers send: none, an instant already in the past,
\* the present instant (the last one at which the token is not expired).
ExpiresAtChoices == {None, Some(now - 1), Some(now)}

CreateToken ==
    /\ Len(tokens) < MaxTokens
    /\ \E user_id \in UserIds \cup {3}, expires_at \in ExpiresAtChoices :
          \E suffix \in DrawnSuffixes(user_id) :
              create_token(user_id, expires_at, suffix)
    /\ UNCHANGED <<response, calls>>

\* Creation for the listing: up to MaxListed tokens, expired ones among them.
CreateListedToken ==
    /\ Len(tokens) < MaxListed
    /\ \E user_id \in UserIds, expires_at \in {None, Some(now - 1)} :
          \E suffix \in DrawnSuffixes(user_id) :
              create_token(user_id, expires_at, suffix)
    /\ UNCHANGED <<response, calls>>

\* the ids revoke is called with: every id that can exist, and one that cannot
RevokeIds == 1..(MaxTokens + 1)

RevokeToken ==
    /\ \E token_id \in RevokeIds, user_id \in UserIds :
           revoke_token(token_id, user_id)
    /\ UNCHANGED <<response, calls>>

ValidateToken ==
    /\ \E token_string \in TokenStrings : validate_token_and_get_user(token_string)
    /\ UNCHANGED <<response, calls>>

ListTokens ==
    /\ \E user_id \in UserIds : list_tokens(user_id)
    /\ UNCHANGED <<response, calls>>

LoginNames == Usernames \cup {UnknownUsername}

Login ==
    /\ \E username \in LoginNames, password \in Passwords :
           login(username, password)
    /\ UNCHANGED <<response, calls>>

\* ttl values of the codec's callers: left out, negative, zero, positive
ExpiresDeltaChoices ==
    {None, Some(0 - 1), Some(0), Some(ClockStep), Some(2 * ClockStep)}

IssueToken ==
    /\ \E sub \in {None} \cup {Some(u) : u \in LoginNames},
          expires_delta \in ExpiresDeltaChoices :
           issue([sub |-> sub], expires_delta)
    /\ UNCHANGED <<response, calls>>

VerifyToken ==
    /\ \E token \in Presentable : verify(token)
    /\ UNCHANGED <<response, calls>>

ValidateJwt ==
    /\ \E jwt_token \in Presentable : validate_jwt_and_get_user(jwt_token)
    /\ UNCHANGED <<response, calls>>

KeepToken == keep_token /\ UNCHANGED <<response, calls>>

SetUserInactive ==
    /\ \E user_id \in UserIds : set_user_inactive(user_id)
    /\ UNCHANGED <<response, calls>>

\* A session token of an account that was issued with a lifetime already
\* over: a correctly signed token that is expired.
IssueExpiredToken ==
    /\ \E username \in Usernames :
           issue([sub |-> Some(username)], Some(0 - 1))
    /\ UNCHANGED <<response, calls>>

ValidateTokenRoute ==
    /\ \E token_string \in TokenStrings, store_fault \in BOOLEAN :
           validate_token_route(token_string, store_fault)
    /\ UNCHANGED calls

ValidateJwtRoute ==
    /\ \E jwt_token \in Presentable, store_fault \in BOOLEAN :
           validate_jwt_token_route(jwt_token, store_fault)
    /\ UNCHANGED calls

LoginRoute ==
    /\ \E username \in LoginNames, password \in Passwords,
          store_fault \in BOOLEAN :
           login_route(username, password, store_fault)
    /\ UNCHANGED calls

CreateTokenRoute ==
    /\ Len(tokens) < MaxTokens
    /\ \E current_user \in UserIds, expires_at \in {None, Some(now - 1)},
          store_fault \in BOOLEAN :
          \E suffix \in DrawnSuffixes(current_user) :
              create_token_route(current_user, expires_at, suffix, store_fault)
    /\ UNCHANGED calls

\* The tokens the concurrent requests contend for are stored before the
\* first of them arrives: without expiry, or expiring at the present
\* reading of the clock.
CreateSharedToken ==
    /\ Len(tokens) < MaxTokens
    /\ \A w \in Workers : calls[w].pc = "idle"
    /\ \E user_id \in UserIds, expires_at \in {None, Some(now)} :
          \E suffix \in DrawnSuffixes(user_id) \ {tokens[i].token[3] : i \in DOMAIN tokens} :
              create_token(user_id, expires_at, suffix)
    /\ UNCHANGED <<response, calls>>

ValidateQuery ==
    \E w \in Workers, token_string \in TokenStrings :
        validate_query(w, token_string)

ValidateCheck == \E w \in Workers : validate_check(w)

ValidateStamp == \E w \in Workers : validate_stamp(w)

ValidateCommit == \E w \in Workers : validate_commit(w)

ValidateReturn == \E w \in Workers : validate_return(w)

RevokeRead ==
    \E w \in Workers, token_id \in RevokeIds, user_id \in UserIds :
        revoke_read(w, token_id, user_id)

RevokeCommit == \E w \in Workers : revoke_commit(w)

RevokeReturn == \E w \in Workers : revoke_return(w)

\* The token store and the operations on it, with logins in between.  The
\* calls of one run are served at one reading of the clock; a token's
\* expires_at lies before that reading or not, as its creator chose.
Next ==
    \/ CreateToken
    \/ RevokeToken
    \/ ValidateToken
    \/ ListTokens
    \/ Login

Spec == Init /\ [][Next]_vars

\* Login and the session tokens, with the clock running: the token table is
\* not read on these paths.
NextSession ==
    \/ Login
    \/ KeepToken
    \/ IssueToken
    \/ VerifyToken
    \/ ValidateJwt
    \/ SetUserInactive
    \/ Tick

SpecSession == Init /\ [][NextSession]_vars

\* Creating, revoking and listing: the operations that decide what a
\* listing shows.
NextListing ==
    \/ CreateListedToken
    \/ RevokeToken
    \/ ListTokens

SpecListing == Init /\ [][NextListing]_vars

\* The routes, with the store failing under some of the requests.
NextApi ==
    \/ LoginRoute
    \/ KeepToken
    \/ IssueExpiredToken
    \/ CreateTokenRoute
    \/ ValidateTokenRoute
    \/ ValidateJwtRoute

SpecApi == Init /\ [][NextApi]_vars

\* Two workers serving validations and revokes statement by statement, with
\* the clock running; tokens are created in one transaction each.
NextConcurrent ==
    \/ CreateSharedToken
    \/ ValidateQuery
    \/ ValidateCheck
    \/ ValidateStamp
    \/ ValidateCommit
    \/ ValidateReturn
    \/ RevokeRead
    \/ RevokeCommit
    \/ RevokeReturn
    \/ Tick

SpecConcurrent == Init /\ [][NextConcurrent]_vars

(***************************************************************************)
(* Properties of the token store (specification Spec)                      *)
(***************************************************************************)

\* C1: revoke_token(token_id, user_id) clears is_active of the token with
\* that id, and of nothing else, exactly when that token exists and is owned
\* by user_id, and then returns True; in every other case it returns False
\* and the token table is unchanged.  No call on behalf of one account
\* changes a token of another account.
C1_RevokeOnlyOwnToken ==
    [][last'.op = "revoke_token" =>
       \A token_id \in RevokeIds, user_id \in UserIds :
          revoke_token(token_id, user_id) =>
             /\ IF token_id \in DOMAIN tokens /\ tokens[token_id].user_id = user_id
                THEN /\ last'.res = TRUE
                     /\ tokens' = [tokens EXCEPT ![token_id].is_active = FALSE]
                ELSE /\ last'.res = FALSE
                     /\ tokens' = tokens
             /\ \A i \in DOMAIN tokens :
                   tokens[i].user_id # user_id =>
                      i \in DOMAIN tokens' /\ tokens'[i] = tokens[i]
      ]_vars

\* C1 witness: a revoke of the caller's own active token has just returned
\* True while a token of the other account is stored and still active.
C1_Witness ==
    /\ last.op = "revoke_token"
    /\ last.about = "own active token"
    /\ last.res = TRUE
    /\ \E i \in revoked, j \in DOMAIN tokens :
          /\ ~tokens[i].is_active
          /\ tokens[j].user_id # tokens[i].user_id
          /\ tokens[j].is_active

\* The rows that make a string valid: exact string, active, and expires_at
\* unset or not in the past.
ValidRows(token_string) ==
    {i \in DOMAIN tokens :
        /\ tokens[i].token = token_string
        /\ tokens[i].is_active
        /\ (tokens[i].expires_at = None \/ tokens[i].expires_at[1] >= now)}

\* C2: validate_token_and_get_user(s) returns the owner of a token row if
\* and only if some row has the string s, is active, and has expires_at
\* unset or not in the past; otherwise it returns None.
C2_ValidateIffActiveUnexpired ==
    [][last'.op = "validate_token" =>
       \A s \in TokenStrings :
          validate_token_and_get_user(s) =>
             IF ValidRows(s) # {}
             THEN \E i \in ValidRows(s) : last'.res = Some(tokens[i].user_id)
             ELSE last'.res = None
      ]_vars

\* C2 witness: a validation has just returned an account for a token whose
\* expires_at is the present instant (the last instant at which it is valid).
C2_Witness ==
    /\ last.op = "validate_token"
    /\ last.res # None
    /\ \E i \in DOMAIN tokens :
          /\ tokens[i].expires_at = Some(now)
          /\ tokens[i].last_used_at = Some(now)
          /\ last.res = Some(tokens[i].user_id)

\* C3: once revoke_token has returned True for a token, every later
\* validation of that token's string returns None.
C3_RevokedNeverValidates ==
    [][last'.op = "validate_token" =>
       \A s \in TokenStrings :
          (validate_token_and_get_user(s)
              /\ \E i \in revoked : tokens[i].token = s)
          => last'.res = None
      ]_vars

\* C3 witness: the string of a revoked token, which had validated before
\* (last_used_at is set), has just been presented and refused.
C3_Witness ==
    /\ last.op = "validate_token"
    /\ last.about = "revoked token"
    /\ last.res = None
    /\ \E i \in revoked : tokens[i].last_used_at # None

\* C4: no step removes a token row, and no step sets is_active of a row back
\* to True once it is False.
C4_InactiveIsTerminal ==
    [][\A i \in DOMAIN tokens :
          /\ i \in DOMAIN tokens'
          /\ (~tokens[i].is_active => ~tokens'[i].is_active)
      ]_vars

\* C4 witness: a token was revoked, revoked once more, and is inactive.
C4_Witness ==
    /\ last.op = "revoke_token"
    /\ last.about = "own inactive token"
    /\ \E i \in revoked : ~tokens[i].is_active

\* C5: validating the string of an active token whose expires_at is in the
\* past returns None and leaves the row active (and the table as it was).
C5_ExpiryLeavesFlag ==
    [][last'.op = "validate_token" =>
       \A s \in TokenStrings :
          validate_token_and_get_user(s) =>
             \A i \in DOMAIN tokens :
                (/\ tokens[i].token = s
                 /\ tokens[i].is_active
                 /\ tokens[i].expires_at # None
                 /\ tokens[i].expires_at[1] < now)
                => /\ last'.res = None
                   /\ tokens'[i].is_active
                   /\ tokens' = tokens
      ]_vars

\* C5 witness: an expired, never revoked token has just been refused and its
\* row is still active.
C5_Witness ==
    /\ last.op = "validate_token"
    /\ last.about = "expired token"
    /\ last.res = None
    /\ \E i \in DOMAIN tokens :
          /\ tokens[i].is_active
          /\ tokens[i].expires_at # None
          /\ tokens[i].expires_at[1] < now

\* C6 as stated: a revoke of an already inactive token, and a revoke of a
\* token of another account, return False, and no token of another account
\* changes.
C6_AsStated ==
    [][last'.op = "revoke_token" =>
       \A token_id \in RevokeIds, user_id \in UserIds :
          (/\ revoke_token(token_id, user_id)
           /\ token_id \in DOMAIN tokens
           /\ (~tokens[token_id].is_active \/ tokens[token_id].user_id # user_id))
          => /\ last'.res = FALSE
             /\ \A i \in DOMAIN tokens :
                   tokens[i].user_id # user_id => tokens'[i] = tokens[i]
      ]_vars

\* C6 amended: a revoke of the caller's own, already inactive token returns
\* True again and changes nothing; a revoke of a token of another account
\* returns False and changes nothing; each time the call is repeated.
C6_RepeatedRevoke ==
    [][last'.op = "revoke_token" =>
       \A token_id \in RevokeIds, user_id \in UserIds :
          (revoke_token(token_id, user_id) /\ token_id \in DOMAIN tokens)
          => /\ (tokens[token_id].user_id = user_id /\ ~tokens[token_id].is_active)
                   => (last'.res = TRUE /\ tokens' = tokens)
             /\ tokens[token_id].user_id # user_id
                   => (last'.res = FALSE /\ tokens' = tokens)
      ]_vars

\* C6 witness: the owner's second revoke of the same token has returned True.
C6_Witness ==
    /\ last.op = "revoke_token"
    /\ last.about = "own inactive token"
    /\ last.res = TRUE

\* The form user:<username>:<12 hex digits> (hex digits are the lowercase
\* ones of uuid's hex), for the username of the account user_id.
HasTokenForm(token, user_id) ==
    /\ token[1] = "user"
    /\ user_id \in DOMAIN users
    /\ token[2] = users[user_id].username
    /\ Len(token[3]) = 12
    /\ \A d \in 1..12 : token[3][d] \in 0..15

\* C14: every stored token has a string of the form
\* user:<username>:<12 hex digits> with the username of its owner, and no
\* step changes the string or the owner of a stored token (nor a username).
C14_TokenStringForm ==
    /\ [](\A i \in DOMAIN tokens : HasTokenForm(tokens[i].token, tokens[i].user_id))
    /\ [][/\ \A i \in DOMAIN tokens :
                /\ i \in DOMAIN tokens'
                /\ tokens'[i].token = tokens[i].token
                /\ tokens'[i].user_id = tokens[i].user_id
           /\ \A u \in DOMAIN users : users'[u].username = users[u].username
         ]_vars

\* C14 witness: a token of bob that was validated and then revoked still
\* carries the string user:bob:<12 hex digits>.
C14_Witness ==
    /\ last.op = "revoke_token"
    /\ last.res = TRUE
    /\ \E i \in revoked :
          /\ tokens[i].user_id = 2
          /\ tokens[i].last_used_at # None
          /\ tokens[i].token[2] = "bob"
          /\ HasTokenForm(tokens[i].token, 2)

\* C16: validate_token_and_get_user writes exactly when it returns an
\* account: then last_used_at of the matched row becomes the present time
\* and nothing else changes; when it returns None the store is unchanged.
C16_ValidateWritesOnlyOnSuccess ==
    [][last'.op = "validate_token" =>
       \A s \in TokenStrings :
          validate_token_and_get_user(s) =>
             /\ users' = users
             /\ IF last'.res # None
                THEN \E i \in DOMAIN tokens :
                        /\ tokens[i].token = s
                        /\ tokens[i].is_active
                        /\ tokens' = [tokens EXCEPT ![i].last_used_at = Some(now)]
                ELSE tokens' = tokens
      ]_vars

\* C16 witness: a validation has just succeeded on a token and stamped it,
\* while an expired token that was presented and refused has no stamp.
C16_Witness ==
    /\ last.op = "validate_token"
    /\ last.res # None
    /\ \E i, j \in DOMAIN tokens :
          /\ tokens[i].last_used_at = Some(now)
          /\ last.res = Some(tokens[i].user_id)
          /\ tokens[j].is_active
          /\ tokens[j].expires_at = Some(now - 1)
          /\ tokens[j].last_used_at = None

\* A stored token already carries the string create_token would generate.
Collides(user_id, suffix) ==
    \E i \in DOMAIN tokens :
       tokens[i].token = generate_token(users[user_id].username, suffix)

C18_TokenStringsUnique ==
    /\ [](\A i, j \in DOMAIN tokens :
             tokens[i].token = tokens[j].token => i = j)
    /\ [][last'.op = "create_token" =>
           \A user_id \in UserIds, expires_at \in ExpiresAtChoices :
              \A suffix \in DrawnSuffixes(user_id) :
                 (create_token(user_id, expires_at, suffix)
                     /\ Collides(user_id, suffix))
                 => /\ last'.raised = "IntegrityError"
                    /\ last'.res = None
                    /\ tokens' = tokens
         ]_vars

\* C18 witness: a create has just been rejected by the store although every
\* stored token is revoked: the colliding string is that of a revoked token.
C18_Witness ==
    /\ last.op = "create_token"
    /\ last.raised = "IntegrityError"
    /\ tokens # <<>>
    /\ \A i \in DOMAIN tokens : ~tokens[i].is_active

(***************************************************************************)
(* Properties of login and the session tokens (specification SpecSession)  *)
(***************************************************************************)

\* C7: login has three outcomes.  401 (InvalidCredentials) when no account
\* has the username or the password does not hash to the stored hash, also
\* for an inactive account; 400 (InactiveAccount) when the account exists,
\* the password verifies and is_active is False; otherwise 200 with the
\* account and a session token whose sub is the account's username.
C7_LoginOutcomes ==
    [][last'.op = "login" =>
       \A username \in LoginNames, password \in Passwords :
          login(username, password) =>
             LET accounts == {i \in DOMAIN users : users[i].username = username}
                 verified == {i \in accounts :
                                users[i].hashed_password = get_password_hash(password)}
             IN  IF verified = {}
                 THEN /\ last'.status = 401
                      /\ last'.user = None
                      /\ last'.access_token = None
                 ELSE IF \E i \in verified : ~users[i].is_active
                 THEN /\ last'.status = 400
                      /\ last'.user = None
                      /\ last'.access_token = None
                 ELSE /\ last'.status = 200
                      /\ last'.user \in {Some(i) : i \in verified}
                      /\ last'.access_token # None
                      /\ last'.access_token[1].payload.sub = Some(username)
                      /\ \E i \in verified :
                            last'.access_token[1].payload.sub = Some(users[i].username)
      ]_vars

\* C7 witness: a login for a deactivated account has been refused with 400.
C7_Witness ==
    /\ last.op = "login"
    /\ last.status = 400
    /\ \E i \in DOMAIN users : ~users[i].is_active

\* C8: the session token of a successful login, presented to
\* validate_jwt_and_get_user before its expiry, resolves to the account that
\* logged in.
C8_LoginRoundTrip ==
    (/\ last.op = "validate_jwt"
     /\ held # None
     /\ held[1].uid # None
     /\ last.token = held[1].token
     /\ now < held[1].token.payload.exp)
    => last.res = held[1].uid

\* C8 witness: the kept token of bob's login has just resolved to bob.
C8_Witness ==
    /\ last.op = "validate_jwt"
    /\ held # None
    /\ held[1].uid = Some(2)
    /\ last.token = held[1].token
    /\ now < held[1].token.payload.exp
    /\ last.res = Some(2)

\* The signature of token is the HMAC of its payload under the configured
\* secret.
SignatureValid(token) ==
    token.wf /\ token.sig = HS256(JWT_SECRET_KEY, token.payload)

\* token is the kept token with one character altered.
IsAltered(token) ==
    held # None /\ token \in OneCharAltered(held[1].token)

\* C9 as stated: verify_token returns the claims if and only if the
\* signature is valid and the expiry is still in the future, and returns
\* None, raising nothing, for a malformed token, a token with one character
\* altered, a token signed with another secret and a token whose expiry is
\* in the past.
C9_AsStated ==
    last.op = "verify_token" =>
       /\ last.raised = ""
       /\ (last.payload # None) <=>
             (SignatureValid(last.token) /\ last.token.payload.exp > now)
       /\ last.payload # None => last.payload = Some(last.token.payload)
       /\ (\/ ~last.token.wf
           \/ IsAltered(last.token)
           \/ last.token.sig = HS256(OtherSecret, last.token.payload)
           \/ last.token.payload.exp < now)
          => last.payload = None

\* C9 amended: verify_token returns the claims if and only if the signature
\* is valid and the expiry is not in the past (the token is still accepted
\* at the instant exp); it returns None, raising nothing, for a malformed
\* token, a token altered in its payload or in the bytes of its signature, a
\* token signed with another secret and a token whose expiry is in the past.
C9_VerifyIffSignedAndNotExpired ==
    last.op = "verify_token" =>
       /\ last.raised = ""
       /\ (last.payload # None) <=>
             (SignatureValid(last.token) /\ last.token.payload.exp >= now)
       /\ last.payload # None => last.payload = Some(last.token.payload)
       /\ (\/ ~last.token.wf
           \/ (IsAltered(last.token) /\ last.token.slack = held[1].token.slack)
           \/ last.token.sig = HS256(OtherSecret, last.token.payload)
           \/ last.token.payload.exp < now)
          => last.payload = None

\* C9 witness: a token signed with the configured secret has been verified
\* at the very instant of its expiry, and its claims were returned.
C9_Witness ==
    /\ last.op = "verify_token"
    /\ SignatureValid(last.token)
    /\ last.token.payload.exp = now
    /\ last.payload = Some(last.token.payload)

\* C10 as stated: create_access_token embeds now + ttl for every ttl the
\* caller supplies (zero and negative ones too), the default lifetime only
\* when ttl is left out, and does not modify the claims it was given.
C10_AsStated ==
    last.op = "create_access_token" =>
       /\ last.encoded_jwt.payload.exp =
             now + (IF last.expires_delta = None
                    THEN timedelta(JWT_ACCESS_TOKEN_EXPIRE_MINUTES)
                    ELSE last.expires_delta[1])
       /\ last.data = last.data_in

\* C12: validate_jwt_and_get_user returns None exactly when the codec does
\* not verify the token, the sub claim is absent, or no account has sub as
\* its username; otherwise it returns that account, whatever its is_active
\* flag is.  A login for an account that is not active, with the right
\* password, is refused with 400 (InactiveAccount).
C12_SessionValidationIgnoresActive ==
    [][/\ last'.op = "validate_jwt" =>
          \A t \in Presentable :
             validate_jwt_and_get_user(t) =>
                LET verified == SignatureValid(t) /\ t.payload.exp >= now
                    accounts == IF t.payload.sub = None THEN {}
                                ELSE {i \in DOMAIN users :
                                         users[i].username = t.payload.sub[1]}
                IN  /\ (last'.res = None) <=> (~verified \/ accounts = {})
                    /\ last'.res # None => last'.res[1] \in accounts
       /\ last'.op = "login" =>
          \A username \in LoginNames, password \in Passwords :
             (/\ login(username, password)
              /\ \E i \in DOMAIN users :
                    /\ users[i].username = username
                    /\ users[i].hashed_password = get_password_hash(password)
                    /\ ~users[i].is_active)
             => last'.status = 400 /\ last'.access_token = None
      ]_vars

\* C12 witness: the session token of a login, kept while the account was
\* set inactive, has just resolved to that inactive account.
C12_Witness ==
    /\ last.op = "validate_jwt"
    /\ held # None
    /\ held[1].uid # None
    /\ last.token = held[1].token
    /\ last.res = held[1].uid
    /\ ~users[last.res[1]].is_active

(***************************************************************************)
(* Properties of the listing (specification SpecListing)                   *)
(***************************************************************************)

\* C13: after any creates and revokes, get_user_tokens(user_id) returns each
\* token record that is owned by user_id and active exactly once, and no
\* other record: no token of another account, no revoked token, no active
\* token left out (an expired token that is still active is listed).
C13_ListExactlyOwnActive ==
    [][last'.op = "list_tokens" =>
       \A user_id \in UserIds :
          list_tokens(user_id) =>
             /\ {last'.res[k] : k \in DOMAIN last'.res}
                   = {i \in DOMAIN tokens :
                         tokens[i].user_id = user_id /\ tokens[i].is_active}
             /\ \A k, m \in DOMAIN last'.res :
                   last'.res[k] = last'.res[m] => k = m
      ]_vars

\* C13 witness: one account created three tokens and revoked one of them;
\* its listing has just returned the two others, an expired one among them.
C13_Witness ==
    /\ last.op = "list_tokens"
    /\ Len(tokens) = 3
    /\ \A i \in DOMAIN tokens : tokens[i].user_id = 1
    /\ Cardinality(revoked) = 1
    /\ Len(last.res) = 2
    /\ \A k \in DOMAIN last.res : last.res[k] \notin revoked
    /\ \E k \in DOMAIN last.res : tokens[last.res[k]].expires_at = Some(now - 1)

(***************************************************************************)
(* Properties of the routes (specification SpecApi)                        *)
(***************************************************************************)

\* The codec does not verify token: it is malformed, its signature is not
\* that of its payload under the configured secret, or it is expired.
FailsVerification(token) ==
    \/ ~token.wf
    \/ token.sig # HS256(JWT_SECRET_KEY, token.payload)
    \/ token.payload.exp < now

\* C11: whatever makes a session token fail verification (expired,
\* malformed, wrong signature), validate_jwt_and_get_user returns None and
\* POST /validate-jwt answers with one and the same response, so two
\* failing tokens get identical outcomes.
C11_FailureCauseNotRevealed ==
    (/\ response.route = "POST /validate-jwt"
     /\ last.op = "validate_jwt"
     /\ FailsVerification(last.token))
    => /\ last.res = None
       /\ response = InvalidResponse("POST /validate-jwt",
                                     "Invalid or expired JWT token")

\* C11 witness: a token signed with the configured secret and expired has
\* just been answered with the response of an invalid token.
C11_Witness ==
    /\ response = InvalidResponse("POST /validate-jwt",
                                  "Invalid or expired JWT token")
    /\ last.op = "validate_jwt"
    /\ SignatureValid(last.token)
    /\ last.token.payload.exp < now

\* An exception was raised inside the operation that was served last.
RaisedInside == "raised" \in DOMAIN last /\ last.raised # ""

\* C15: an exception raised inside a validation operation does not leave
\* the validation route, which answers valid=false "Token validation
\* failed"; an exception raised inside login or create_token leaves its
\* route and surfaces as an error.
C15_SafetyNetOnValidationOnly ==
    /\ (/\ response.route \in {"POST /validate", "POST /validate-jwt"}
        /\ last.op \in {"validate_token", "validate_jwt"}
        /\ RaisedInside)
       => response = InvalidResponse(response.route, "Token validation failed")
    /\ (/\ response.route \in {"POST /login", "POST /tokens"}
        /\ last.op \in {"login", "create_token"}
        /\ RaisedInside)
       => response = ServerError(response.route, last.raised)

\* C15 witness: the store failed under a validation of a stored, current
\* API token, and the route answered "Token validation failed".
C15_Witness ==
    /\ response = InvalidResponse("POST /validate", "Token validation failed")
    /\ last.op = "validate_token"
    /\ last.about = "current token"
    /\ RaisedInside

(***************************************************************************)
(* Properties of concurrent requests (specification SpecConcurrent)        *)
(***************************************************************************)

\* The validations that have committed their last_used_at on row i.
Touchers(i) ==
    {w \in Workers :
        calls[w].op = "validate" /\ calls[w].seq > 0 /\ calls[w].row = Some(i)}

\* C19: validations of one active, unexpired token that interleave in any
\* order all return the owner; a step of a validation changes nothing in
\* the store but last_used_at of the row it matched (so every other field is
\* as after a serial execution); and the stored last_used_at is the value of
\* the validation that committed last.
C19_ConcurrentValidations ==
    /\ [](\A w \in Workers, i \in DOMAIN tokens :
             (/\ calls[w].op = "validate"
              /\ calls[w].pc = "done"
              /\ calls[w].existed
              /\ calls[w].arg = tokens[i].token
              /\ tokens[i].is_active
              /\ (tokens[i].expires_at = None \/ tokens[i].expires_at[1] >= now))
             => calls[w].res = Some(tokens[i].user_id))
    /\ [](\A i \in DOMAIN tokens :
             Touchers(i) # {} =>
                \E w \in Touchers(i) :
                   /\ \A v \in Touchers(i) : calls[v].seq <= calls[w].seq
                   /\ tokens[i].last_used_at = calls[w].stamp)
    /\ [][\A w \in Workers :
             (calls[w].op = "validate" /\ calls'[w] # calls[w])
             => /\ users' = users
                /\ \/ tokens' = tokens
                   \/ tokens' = [tokens EXCEPT ![calls[w].row[1]].last_used_at =
                                                 calls[w].stamp]
         ]_vars

\* C19 witness: two validations of one token have both returned the owner;
\* the one that read the clock first committed last, and its (older) value
\* is the stored last_used_at.
C19_Witness ==
    \E w, v \in Workers :
       /\ w # v
       /\ calls[w].pc = "done" /\ calls[w].op = "validate"
       /\ calls[v].pc = "done" /\ calls[v].op = "validate"
       /\ calls[w].row # None
       /\ calls[w].row = calls[v].row
       /\ calls[w].res = Some(tokens[calls[w].row[1]].user_id)
       /\ calls[v].res = calls[w].res
       /\ calls[w].seq > calls[v].seq
       /\ calls[v].seq > 0
       /\ calls[w].stamp[1] < calls[v].stamp[1]
       /\ tokens[calls[w].row[1]].last_used_at = calls[w].stamp

\* C20: no step, and in particular no commit of a validation that had read
\* the token as active, sets is_active of a token back to True once a revoke
\* has committed it to False; and a validation whose query runs after a
\* revoke of the token has returned True returns None.
C20_RevokeSurvivesValidation ==
    /\ [][\A i \in DOMAIN tokens :
             (\E w \in Workers :
                 /\ calls[w].op = "revoke"
                 /\ calls[w].seq > 0
                 /\ calls[w].row = Some(i))
             => /\ ~tokens[i].is_active
                /\ ~tokens'[i].is_active
         ]_vars
    /\ [](\A w \in Workers :
             (/\ calls[w].op = "validate"
              /\ calls[w].pc = "done"
              /\ calls[w].after_revoke)
             => calls[w].res = None)

\* C20 witness: a validation read the token as active, a revoke committed,
\* and the validation then committed its last_used_at: the token is
\* inactive and carries that last_used_at.
C20_Witness ==
    \E w, v \in Workers :
       /\ calls[w].op = "validate"
       /\ calls[v].op = "revoke"
       /\ calls[w].row # None
       /\ calls[v].row = calls[w].row
       /\ calls[v].seq > 0
       /\ calls[w].seq > calls[v].seq
       /\ calls[w].loaded[1].is_active
       /\ ~tokens[calls[w].row[1]].is_active
       /\ tokens[calls[w].row[1]].last_used_at = calls[w].stamp

====
